---- MODULE Spec2Model ----
(***************************************************************************)
(* Model of commander-core's raw.rs: the token distributor                 *)
(* (Raw::divide_cmd, Raw::divide_opt) and the From<Raw> conversions.       *)
(*                                                                         *)
(* A String is a sequence of one-character strings (<<"4","2">> is "42");  *)
(* a Raw is a sequence of Strings.                                         *)
(***************************************************************************)
EXTENDS Integers, Sequences, FiniteSets, TLC

\* Bounds of the model.
MaxTokens == 3      \* longest Instance.args
MaxArgs == 3        \* longest descriptor list handed to divide_cmd
MaxRaw == 3         \* longest Raw handed to a conversion

\* Tokens the distributor is run on (their content is opaque to it).
TokenPool == { <<"a">>, <<"b">>, <<"c">> }

\* Tokens the conversions are run on: "42", "7", "1", "3", "a", "", "300",
\* "-1", "true" and "1.5".
ConvPool ==
    { <<"4", "2">>, <<"7">>, <<"1">>, <<"3">>, <<"a">>, << >>,
      <<"3", "0", "0">>, <<"-", "1">>, <<"t", "r", "u", "e">>,
      <<"1", ".", "5">> }

ArgumentType ==
    {"RequiredSingle", "OptionalSingle", "RequiredMultiple", "OptionalMultiple"}

\* Option<T>
None == [some |-> FALSE]
Some(v) == [some |-> TRUE, val |-> v]

\* No conversion has run.
NoTarget == [shape |-> "none", ty |-> "none"]

SeqsUpTo(S, n) == UNION { [1..k -> S] : k \in 0..n }

VARIABLES
    insArgs,    \* ins.args, the raw token sequence
    args,       \* divide_cmd's descriptor list (the ty of each Argument)
    iter,       \* divide_cmd's iterator: how many tokens it has yielded
    idx,        \* divide_cmd's for loop: how many descriptors it has handled
    raws,       \* divide_cmd's local raws
    pc,         \* "cmd" | "returned" | "opt_done"
    result,     \* what divide_cmd returned
    optArg,     \* divide_opt's descriptor argument
    optRaw,     \* what divide_opt returned
    raw,        \* the Raw handed to a conversion
    target,     \* the From<Raw> impl that ran: [shape, ty]
    out,        \* what the conversion returned, under its type: target :> value
    cpc         \* "ready" | "converted" ("idle": no conversion in this run)

distVars == <<insArgs, args, iter, idx, raws, pc, result, optArg, optRaw>>
convVars == <<raw, target, out, cpc>>
vars == <<distVars, convVars>>

----------------------------------------------------------------------------
(* Raw and the slice iterator *)

\* Raw::new(vec![])
RawNew == << >>

\* Raw::push
Push(self, ele) == Append(self, ele)

\* Raw::is_empty
IsEmpty(self) == Len(self) = 0

\* ins.args.iter().next() with `pos` tokens already yielded
IterNext(v, pos) ==
    IF pos < Len(v)
    THEN [some |-> TRUE, val |-> v[pos + 1], pos |-> pos + 1]
    ELSE [some |-> FALSE, pos |-> pos]

\* if let Some(raw_str) = iter.next() { raw.push(raw_str.clone()); }
IfLetNext(v, pos, r) ==
    LET n == IterNext(v, pos)
    IN  IF n.some THEN [raw |-> Push(r, n.val), pos |-> n.pos]
                  ELSE [raw |-> r, pos |-> n.pos]

\* while let Some(raw_str) = iter.next() { raw.push(raw_str.clone()); }
RECURSIVE WhileLetNext(_, _, _)
WhileLetNext(v, pos, r) ==
    LET n == IterNext(v, pos)
    IN  IF n.some THEN WhileLetNext(v, n.pos, Push(r, n.val))
                  ELSE [raw |-> r, pos |-> n.pos]

----------------------------------------------------------------------------
(* Raw::divide_cmd: one action per match arm of the for loop's body *)

\* A Single arm that pushes its raw only when a token was read.
SingleArmPushInsideIf(v, pos, rs) ==
    LET r == IfLetNext(v, pos, RawNew)
    IN  [raws |-> IF IsEmpty(r.raw) THEN rs ELSE Append(rs, r.raw), pos |-> r.pos]

\* A Single arm that drains the iterator like a Multiple arm.
SingleArmDrains(v, pos, rs) ==
    LET r == WhileLetNext(v, pos, RawNew)
    IN  [raws |-> Append(rs, r.raw), pos |-> r.pos]

\* A Single arm that reads the token without advancing the shared cursor.
SingleArmPeeks(v, pos, rs) ==
    LET r == IfLetNext(v, pos, RawNew)
    IN  [raws |-> Append(rs, r.raw), pos |-> pos]

\* A Multiple arm that reads one token only.
MultipleArmTakesOne(v, pos, rs) ==
    LET r == IfLetNext(v, pos, RawNew)
    IN  [raws |-> Append(rs, r.raw), pos |-> r.pos]

\* A Multiple arm that restarts from a fresh iterator.
MultipleArmFreshIter(v, pos, rs) ==
    LET r == WhileLetNext(v, 0, RawNew)
    IN  [raws |-> Append(rs, r.raw), pos |-> r.pos]

CmdArmRequiredSingle(v, pos, rs) ==
    LET r == IfLetNext(v, pos, RawNew)
    IN  [raws |-> Append(rs, r.raw), pos |-> r.pos]

CmdArmOptionalSingle(v, pos, rs) ==
    LET r == IfLetNext(v, pos, RawNew)
    IN  [raws |-> Append(rs, r.raw), pos |-> r.pos]

CmdArmRequiredMultiple(v, pos, rs) ==
    LET r == WhileLetNext(v, pos, RawNew)
    IN  [raws |-> Append(rs, r.raw), pos |-> r.pos]

CmdArmOptionalMultiple(v, pos, rs) ==
    LET r == WhileLetNext(v, pos, RawNew)
    IN  [raws |-> Append(rs, r.raw), pos |-> r.pos]

\* The loop body for the next descriptor, when its ty is `ty`.
CmdLoop(ty, r) ==
    /\ pc = "cmd"
    /\ idx < Len(args)
    /\ args[idx + 1] = ty
    /\ raws' = r.raws
    /\ iter' = r.pos
    /\ idx' = idx + 1
    /\ UNCHANGED <<insArgs, args, pc, result, optArg, optRaw, convVars>>

CmdRequiredSingle ==
    CmdLoop("RequiredSingle", CmdArmRequiredSingle(insArgs, iter, raws))

CmdOptionalSingle ==
    CmdLoop("OptionalSingle", CmdArmOptionalSingle(insArgs, iter, raws))

CmdRequiredMultiple ==
    CmdLoop("RequiredMultiple", CmdArmRequiredMultiple(insArgs, iter, raws))

CmdOptionalMultiple ==
    CmdLoop("OptionalMultiple", CmdArmOptionalMultiple(insArgs, iter, raws))

\* The loop is over: `raws` is returned.
CmdReturn ==
    /\ pc = "cmd"
    /\ idx = Len(args)
    /\ result' = raws
    /\ pc' = "returned"
    /\ UNCHANGED <<insArgs, args, iter, idx, raws, optArg, optRaw, convVars>>

----------------------------------------------------------------------------
(* Raw::divide_opt *)

\* divide_opt ignoring its descriptor's arity: always one token.
divide_opt_single_only(v, arg) ==
    IF arg.some THEN IfLetNext(v, 0, RawNew).raw ELSE RawNew

\* divide_opt draining the tokens when no descriptor is given.
divide_opt_none_drains(v, arg) ==
    IF arg.some
    THEN IF arg.val \in {"RequiredSingle", "OptionalSingle"}
         THEN IfLetNext(v, 0, RawNew).raw
         ELSE WhileLetNext(v, 0, RawNew).raw
    ELSE WhileLetNext(v, 0, RawNew).raw

divide_opt(v, arg) ==
    IF arg.some
    THEN CASE arg.val = "RequiredSingle"   -> IfLetNext(v, 0, RawNew).raw
           [] arg.val = "OptionalSingle"   -> IfLetNext(v, 0, RawNew).raw
           [] arg.val = "RequiredMultiple" -> WhileLetNext(v, 0, RawNew).raw
           [] arg.val = "OptionalMultiple" -> WhileLetNext(v, 0, RawNew).raw
    ELSE RawNew

\* The caller resolves an option over the same tokens.
DivideOpt ==
    /\ pc = "returned"
    /\ \E arg \in {None} \cup { Some(ty) : ty \in ArgumentType } :
          /\ optArg' = arg
          /\ optRaw' = divide_opt(insArgs, arg)
    /\ pc' = "opt_done"
    /\ UNCHANGED <<insArgs, args, iter, idx, raws, result, convVars>>

----------------------------------------------------------------------------

Init ==
    /\ insArgs \in SeqsUpTo(TokenPool, MaxTokens)
    /\ args \in SeqsUpTo(ArgumentType, MaxArgs)
    /\ iter = 0
    /\ idx = 0
    /\ raws = << >>
    /\ pc = "cmd"
    /\ result = << >>
    /\ optArg = None
    /\ optRaw = << >>
    /\ raw = << >>
    /\ target = NoTarget
    /\ out = NoTarget :> << >>
    /\ cpc = "idle"

Next ==
    \/ CmdRequiredSingle
    \/ CmdOptionalSingle
    \/ CmdRequiredMultiple
    \/ CmdOptionalMultiple
    \/ CmdReturn
    \/ DivideOpt

Spec == Init /\ [][Next]_vars

----------------------------------------------------------------------------
(* str::parse for the types of impl_all!.  The integer types are the ones *)
(* whose limits fit TLC's integers; the wider ones are further            *)
(* instances of the same macro.                                           *)

SignedTypes == {"i8", "i16"}
UnsignedTypes == {"u8", "u16"}
IntTypes == SignedTypes \cup UnsignedTypes
FloatTypes == {"f32", "f64"}
PrimTypes == IntTypes \cup FloatTypes \cup {"bool", "char"}

\* <$ty>::MIN and <$ty>::MAX
IntMin(ty) == CASE ty = "i8" -> -128 [] ty = "i16" -> -32768 [] OTHER -> 0
IntMax(ty) ==
    CASE ty = "i8" -> 127 [] ty = "i16" -> 32767
      [] ty = "u8" -> 255 [] ty = "u16" -> 65535

\* Result<T, _>
Ok(v) == [ok |-> TRUE, val |-> v]
Err == [ok |-> FALSE]

DigitChars == <<"0", "1", "2", "3", "4", "5", "6", "7", "8", "9">>
IsDigit(c) == \E d \in 1..Len(DigitChars) : DigitChars[d] = c
DigitVal(c) == (CHOOSE d \in 1..Len(DigitChars) : DigitChars[d] = c) - 1

\* The digit loop of the integer parse: checked multiply and add (subtract
\* for a negative number), an error on a non-digit or on leaving the type.
RECURSIVE ParseDigits(_, _, _, _, _)
ParseDigits(ty, s, i, acc, positive) ==
    IF i > Len(s) THEN Ok(acc)
    ELSE IF ~IsDigit(s[i]) THEN Err
    ELSE LET next == IF positive THEN acc * 10 + DigitVal(s[i])
                                 ELSE acc * 10 - DigitVal(s[i])
         IN  IF next > IntMax(ty) \/ next < IntMin(ty)
             THEN Err
             ELSE ParseDigits(ty, s, i + 1, next, positive)

\* str::parse::<integer>: no empty string, no lone sign, "+" for every type,
\* "-" for the signed ones only.
ParseInt(ty, s) ==
    IF Len(s) = 0 THEN Err
    ELSE IF s[1] \in {"+", "-"} /\ Len(s) = 1 THEN Err
    ELSE IF s[1] = "+" THEN ParseDigits(ty, s, 2, 0, TRUE)
    ELSE IF s[1] = "-" /\ ty \in SignedTypes THEN ParseDigits(ty, s, 2, 0, FALSE)
    ELSE ParseDigits(ty, s, 1, 0, TRUE)

\* str::parse::<bool>
ParseBool(s) ==
    IF s = <<"t", "r", "u", "e">> THEN Ok(TRUE)
    ELSE IF s = <<"f", "a", "l", "s", "e">> THEN Ok(FALSE)
    ELSE Err

\* str::parse::<char>: a string of exactly one character
ParseChar(s) == IF Len(s) = 1 THEN Ok(s[1]) ELSE Err

\* A float is m * 10^e with m not a multiple of ten (zero: m = 0, e = 0), or
\* an infinity or a NaN; rounding to the type's precision is left out.
RECURSIVE Finite(_, _)
Finite(m, e) ==
    IF m = 0 THEN [kind |-> "finite", m |-> 0, e |-> 0]
    ELSE IF m % 10 = 0 THEN Finite(m \div 10, e + 1)
    ELSE [kind |-> "finite", m |-> m, e |-> e]
Infinity(neg) == [kind |-> "inf", m |-> IF neg THEN -1 ELSE 1, e |-> 0]
NaN == [kind |-> "nan", m |-> 0, e |-> 0]

RECURSIVE Pow10(_)
Pow10(n) == IF n = 0 THEN 1 ELSE 10 * Pow10(n - 1)

\* How many digits s holds from position i on.
RECURSIVE DigitRun(_, _)
DigitRun(s, i) ==
    IF i <= Len(s) /\ IsDigit(s[i]) THEN 1 + DigitRun(s, i + 1) ELSE 0

\* The number the n digits of s from position i on spell.
RECURSIVE DigitsVal(_, _, _)
DigitsVal(s, i, n) ==
    IF n = 0 THEN 0 ELSE DigitsVal(s, i, n - 1) * 10 + DigitVal(s[i + n - 1])

ToLower(c) ==
    CASE c = "I" -> "i" [] c = "N" -> "n" [] c = "F" -> "f" [] c = "T" -> "t"
      [] c = "Y" -> "y" [] c = "A" -> "a" [] OTHER -> c

\* str::parse::<f32 / f64>: [sign] then inf, infinity or nan in any case, or
\* digits [. digits] [e [sign] digits] with a digit before the exponent.
ParseFloat(s) ==
    IF Len(s) = 0 THEN Err
    ELSE
    LET signed == s[1] \in {"+", "-"}
        neg == s[1] = "-"
        b == IF signed THEN 2 ELSE 1
        word == [k \in 1..(Len(s) - b + 1) |-> ToLower(s[k + b - 1])]
        ni == DigitRun(s, b)
        dot == b + ni
        hasDot == dot <= Len(s) /\ s[dot] = "."
        f == IF hasDot THEN dot + 1 ELSE dot
        nf == IF hasDot THEN DigitRun(s, f) ELSE 0
        x == f + nf
        hasExp == x <= Len(s) /\ s[x] \in {"e", "E"}
        expSigned == hasExp /\ x + 1 <= Len(s) /\ s[x + 1] \in {"+", "-"}
        expNeg == expSigned /\ s[x + 1] = "-"
        d == IF hasExp THEN (IF expSigned THEN x + 2 ELSE x + 1) ELSE x
        ne == IF hasExp THEN DigitRun(s, d) ELSE 0
        mant == DigitsVal(s, b, ni) * Pow10(nf) + DigitsVal(s, f, nf)
        exp == IF expNeg THEN 0 - DigitsVal(s, d, ne) ELSE DigitsVal(s, d, ne)
    IN  IF word \in { <<"i", "n", "f">>,
                      <<"i", "n", "f", "i", "n", "i", "t", "y">> }
        THEN Ok(Infinity(neg))
        ELSE IF word = <<"n", "a", "n">> THEN Ok(NaN)
        ELSE IF ni + nf = 0 THEN Err
        ELSE IF hasExp /\ ne = 0 THEN Err
        ELSE IF d + ne # Len(s) + 1 THEN Err
        ELSE Ok(Finite(IF neg THEN 0 - mant ELSE mant, exp - nf))

\* s.parse::<$ty>()
Parse(ty, s) ==
    CASE ty \in IntTypes -> ParseInt(ty, s)
      [] ty \in FloatTypes -> ParseFloat(s)
      [] ty = "bool" -> ParseBool(s)
      [] ty = "char" -> ParseChar(s)

\* char::default(), the character U+0000 (no token holds it)
NulChar == "U+0000"

\* <$ty>::default()
Default(ty) ==
    CASE ty \in IntTypes -> 0
      [] ty \in FloatTypes -> Finite(0, 0)
      [] ty = "bool" -> FALSE
      [] ty = "char" -> NulChar

\* Result::unwrap_or
UnwrapOr(r, dflt) == IF r.ok THEN r.val ELSE dflt

\* raw.get(k - 1) through Deref<Target = Vec<String>>
Get(r, k) == IF k <= Len(r) THEN Some(r[k]) ELSE None

----------------------------------------------------------------------------
(* The From<Raw> impls *)

\* impl_primitive!: From<Raw> for $ty
FromPrimitive(ty, r) ==
    LET first == Get(r, 1)
        s == IF first.some THEN first.val ELSE <<"0">>
    IN  UnwrapOr(Parse(ty, s), Default(ty))

\* From<Raw> for String
FromString(r) ==
    LET first == Get(r, 1)
    IN  IF first.some THEN first.val ELSE << >>

\* An Option conversion that also answers None for an unparseable token.
FromOptionNoneOnParseFailure(ty, r) ==
    IF IsEmpty(r) \/ ~Parse(ty, r[1]).ok
    THEN None
    ELSE Some(UnwrapOr(Parse(ty, r[1]), Default(ty)))

\* impl_option!: From<Raw> for Option<$ty>
FromOption(ty, r) ==
    IF IsEmpty(r) THEN None ELSE Some(FromPrimitive(ty, r))

\* From<Raw> for Option<String>
FromOptionString(r) ==
    IF IsEmpty(r) THEN None ELSE Some(FromString(r))

\* A Vec conversion that drops the tokens that do not parse (filter_map).
FromVecDropsFailures(ty, r) ==
    LET Parses(t) == Parse(ty, t).ok
        kept == SelectSeq(r, Parses)
    IN  [k \in 1..Len(kept) |-> Parse(ty, kept[k]).val]

\* impl_vec!: From<Raw> for Vec<$ty>
FromVec(ty, r) ==
    [k \in 1..Len(r) |-> UnwrapOr(Parse(ty, r[k]), Default(ty))]

\* From<Raw> for Vec<String>
FromVecString(r) == [k \in 1..Len(r) |-> r[k]]

\* impl_option_vec!: From<Raw> for Option<Vec<$ty>>
FromOptionVec(ty, r) ==
    IF IsEmpty(r) THEN None ELSE Some(FromVec(ty, r))

\* From<Raw> for Option<Vec<String>>
FromOptionVecString(r) ==
    IF IsEmpty(r) THEN None ELSE Some(FromVecString(r))

\* T::from(raw): the Raw is moved into the conversion.
Convert(shape, ty, v) ==
    /\ cpc = "ready"
    /\ target' = [shape |-> shape, ty |-> ty]
    /\ out' = target' :> v
    /\ cpc' = "converted"
    /\ UNCHANGED <<raw, distVars>>

ConvPrimitive == \E ty \in PrimTypes : Convert("scalar", ty, FromPrimitive(ty, raw))
ConvString == Convert("scalar", "String", FromString(raw))
ConvOption == \E ty \in PrimTypes : Convert("option", ty, FromOption(ty, raw))
ConvOptionString == Convert("option", "String", FromOptionString(raw))
ConvVec == \E ty \in PrimTypes : Convert("vec", ty, FromVec(ty, raw))
ConvVecString == Convert("vec", "String", FromVecString(raw))
ConvOptionVec ==
    \E ty \in PrimTypes : Convert("option_vec", ty, FromOptionVec(ty, raw))
ConvOptionVecString ==
    Convert("option_vec", "String", FromOptionVecString(raw))

InitConv ==
    /\ raw \in SeqsUpTo(ConvPool, MaxRaw)
    /\ target = NoTarget
    /\ out = NoTarget :> << >>
    /\ cpc = "ready"
    /\ insArgs = << >>
    /\ args = << >>
    /\ iter = 0
    /\ idx = 0
    /\ raws = << >>
    /\ pc = "idle"
    /\ result = << >>
    /\ optArg = None
    /\ optRaw = << >>

NextConv ==
    \/ ConvPrimitive
    \/ ConvString
    \/ ConvOption
    \/ ConvOptionString
    \/ ConvVec
    \/ ConvVecString
    \/ ConvOptionVec
    \/ ConvOptionVecString

SpecConv == InitConv /\ [][NextConv]_vars

----------------------------------------------------------------------------
(* Vocabulary of the distributor's properties *)

IsSingle(ty) == ty \in {"RequiredSingle", "OptionalSingle"}
IsMultiple(ty) == ty \in {"RequiredMultiple", "OptionalMultiple"}

Min(a, b) == IF a <= b THEN a ELSE b

\* The tokens of the groups rs[1..k], concatenated in order.
RECURSIVE Flatten(_, _)
Flatten(rs, k) == IF k = 0 THEN << >> ELSE Flatten(rs, k - 1) \o rs[k]

\* The group descriptor k is due, given what the groups before it hold.
GroupDue(rs, k) ==
    LET off == Len(Flatten(rs, k - 1))
        n == Len(insArgs)
    IN  IF IsSingle(args[k]) THEN SubSeq(insArgs, off + 1, Min(off + 1, n))
                             ELSE SubSeq(insArgs, off + 1, n)

Returned == pc \in {"returned", "opt_done"}

\* C1: divide_cmd returns exactly one group per descriptor (none for no
\* descriptor), the loop having pushed one group per descriptor handled, and
\* the k-th group is the one due to the k-th descriptor.
C1_OneGroupPerDescriptor ==
    /\ Len(raws) = idx
    /\ Returned =>
          /\ Len(result) = Len(args)
          /\ \A k \in 1..Len(result) : result[k] = GroupDue(result, k)

C1_Witness ==
    /\ pc = "returned"
    /\ Len(args) = 3
    /\ Len(insArgs) = 2
    /\ args[1] = "RequiredSingle"
    /\ args[3] = "RequiredSingle"

\* C2: the groups, concatenated in order, are the original tokens cut where
\* consumption stopped: nothing duplicated, reordered or handed out twice.
C2_ConcatIsPrefix ==
    /\ Flatten(raws, Len(raws)) = SubSeq(insArgs, 1, iter)
    /\ Returned => Flatten(result, Len(result)) = SubSeq(insArgs, 1, iter)

C2_Witness ==
    /\ pc = "returned"
    /\ Len(args) = 2
    /\ result[1] # << >>
    /\ result[2] # << >>
    /\ iter < Len(insArgs)

\* C3: a Multiple descriptor receives every token left at the cursor (none if
\* it is exhausted) and every descriptor after it receives an empty group;
\* [a,b,c] against [RequiredSingle, OptionalMultiple] gives [a] and [b,c].
C3_MultipleDrains ==
    Returned =>
        /\ \A k \in 1..Len(result) :
              IsMultiple(args[k]) =>
                 /\ result[k] = SubSeq(insArgs, Len(Flatten(result, k - 1)) + 1,
                                       Len(insArgs))
                 /\ \A j \in (k + 1)..Len(result) : result[j] = << >>
        /\ ( /\ insArgs = << <<"a">>, <<"b">>, <<"c">> >>
             /\ args = <<"RequiredSingle", "OptionalMultiple">> )
           => result = << << <<"a">> >>, << <<"b">>, <<"c">> >> >>

C3_Witness ==
    /\ pc = "returned"
    /\ Len(args) = 3
    /\ args[1] = "RequiredSingle"
    /\ IsMultiple(args[2])
    /\ Len(result[2]) = 2
    /\ result[3] = << >>

\* C4: a Single arm pushes a group holding exactly the next token, or an empty
\* group when the cursor is exhausted (RequiredSingle too), goes on with the
\* loop, and moves the cursor by the number of tokens it put in the group.
C4_SingleStep ==
    [][ ( /\ pc = "cmd"
          /\ idx < Len(args)
          /\ IsSingle(args[idx + 1]) )
        => /\ Len(raws') = idx + 1
           /\ SubSeq(raws', 1, idx) = raws
           /\ raws'[idx + 1] = ( IF iter < Len(insArgs)
                                 THEN << insArgs[iter + 1] >>
                                 ELSE << >> )
           /\ iter' = iter + Len(raws'[idx + 1])
           /\ idx' = idx + 1
           /\ pc' = "cmd" ]_vars

C4_Witness ==
    /\ pc = "returned"
    /\ Len(args) = 3
    /\ args[2] = "OptionalSingle"
    /\ args[3] = "RequiredSingle"
    /\ Len(result[2]) = 1
    /\ result[3] = << >>

\* C5: divide_opt without a descriptor returns an empty group whatever the
\* tokens are.
C5_NoneIsEmpty ==
    (pc = "opt_done" /\ ~optArg.some) => optRaw = << >>

C5_Witness ==
    /\ pc = "opt_done"
    /\ ~optArg.some
    /\ Len(insArgs) = 3

\* C6: divide_opt with descriptor d returns the group divide_cmd returns for
\* the one-descriptor list [d] over the same tokens: the first token or
\* nothing for a Single kind, every token for a Multiple kind.
C6_OptMatchesCmd ==
    (pc = "opt_done" /\ optArg.some) =>
        /\ args = << optArg.val >> => optRaw = result[1]
        /\ optRaw = ( IF IsSingle(optArg.val)
                      THEN SubSeq(insArgs, 1, Min(1, Len(insArgs)))
                      ELSE insArgs )

C6_Witness ==
    /\ pc = "opt_done"
    /\ optArg = Some("OptionalMultiple")
    /\ args = << "OptionalMultiple" >>
    /\ Len(insArgs) = 3
    /\ optRaw = result[1]

\* C10: the groups hold every token when some descriptor is Multiple, and
\* otherwise min(number of descriptors, number of tokens) tokens: surplus
\* tokens are in no group.
C10_TotalTokens ==
    Returned =>
        Len(Flatten(result, Len(result))) =
            ( IF \E k \in 1..Len(args) : IsMultiple(args[k])
              THEN Len(insArgs)
              ELSE Min(Len(args), Len(insArgs)) )

C10_Witness ==
    /\ pc = "returned"
    /\ Len(args) = 2
    /\ \A k \in 1..2 : IsSingle(args[k])
    /\ Len(insArgs) = 3
    /\ Len(Flatten(result, 2)) = 2

----------------------------------------------------------------------------
(* Properties of the conversions *)

Converted(shape) == cpc = "converted" /\ target.shape = shape

\* The value the conversion returned.
Returns == out[target]

\* What parsing token s as ty falls back to: the value, or ty's default.
ParsedOrDefault(ty, s) ==
    IF Parse(ty, s).ok THEN Parse(ty, s).val ELSE Default(ty)

\* C7: a scalar conversion returns the parsed value of the first token when
\* it parses, and the type's default value (0, 0.0, false, the default
\* character) when the group is empty or the first token does not parse;
\* later tokens do not matter.
C7_ScalarFirstTokenOrDefault ==
    (Converted("scalar") /\ target.ty \in PrimTypes) =>
        Returns = ( IF raw = << >> THEN Default(target.ty)
                ELSE ParsedOrDefault(target.ty, raw[1]) )

\* C8: an Option conversion returns None exactly for the empty group and
\* otherwise Some of the non-optional conversion of the same group; a
\* non-empty group whose first token does not parse gives Some(default).
C8_OptionNoneIffEmpty ==
    (cpc = "converted" /\ target.shape \in {"option", "option_vec"}) =>
        LET ty == target.ty
            base == CASE target.shape = "option" /\ ty = "String" ->
                            FromString(raw)
                      [] target.shape = "option" /\ ty # "String" ->
                            FromPrimitive(ty, raw)
                      [] target.shape = "option_vec" /\ ty = "String" ->
                            FromVecString(raw)
                      [] target.shape = "option_vec" /\ ty # "String" ->
                            FromVec(ty, raw)
        IN  /\ ~Returns.some <=> raw = << >>
            /\ raw # << >> => Returns = Some(base)
            /\ ( /\ target.shape = "option"
                 /\ ty # "String"
                 /\ raw # << >>
                 /\ ~Parse(ty, raw[1]).ok )
               => Returns = Some(Default(ty))

C8_Witness ==
    /\ Converted("option")
    /\ target.ty = "u8"
    /\ Len(raw) = 2
    /\ raw[1] = <<"-", "1">>
    /\ Returns = Some(0)

\* C9: a Vec conversion returns as many elements as the group has tokens, the
\* k-th being the parse of the k-th token or the default when it does not
\* parse (the token itself for Vec<String>); ["1","a","3"] gives [1, 0, 3].
C9_VecElementwise ==
    Converted("vec") =>
        /\ Len(Returns) = Len(raw)
        /\ \A k \in 1..Len(raw) :
              Returns[k] = ( IF target.ty = "String" THEN raw[k]
                         ELSE ParsedOrDefault(target.ty, raw[k]) )
        /\ (raw = << <<"1">>, <<"a">>, <<"3">> >> /\ target.ty \in IntTypes)
           => Returns = <<1, 0, 3>>

C9_Witness ==
    /\ Converted("vec")
    /\ target.ty = "i8"
    /\ raw = << <<"1">>, <<"a">>, <<"3">> >>
    /\ Returns = <<1, 0, 3>>

====
